---- MODULE Spec2Model ----
(***************************************************************************)
(* Model of the sales-forecast backend (src/unnamed/part_000, the Express  *)
(* server): the in-memory Tabular Cache `salesData`, the Dataset Reference *)
(* `currentDataFile`, the artifact directory `model/`, the upload/train    *)
(* request with its spawned Training Job, and the streamed CSV reload.     *)
(*                                                                         *)
(* Text is a sequence of one-character strings, so that parseFloat,        *)
(* toLowerCase and includes are computed character by character.           *)
(***************************************************************************)
EXTENDS Integers, Sequences, FiniteSets, TLC

\* ------------------------------------------------------------------------
\* Bounds of the model
\* ------------------------------------------------------------------------
\* Number of upload requests that may be issued in one run.
MaxReqs == 2
\* Total number of stdout/stderr chunks the Training Jobs emit in one run.
MaxChunks == 2
\* Number of unlinkSync calls that may throw in one run.
MaxFaults == 1
\* Number of pieces of text a spawned interpreter prints around its result.
MaxTokens == 5

\* ------------------------------------------------------------------------
\* JavaScript values held in a row: strings, numbers, NaN, +-Infinity and
\* undefined.  A number is the exact decimal m * 10^e (m has no trailing
\* zero); this is exact for the short cells used here.
\* ------------------------------------------------------------------------
Str(s) == [t |-> "str", s |-> s, m |-> 0, e |-> 0]
NaN == [t |-> "nan", s |-> <<>>, m |-> 0, e |-> 0]
Inf(neg) == [t |-> "inf", s |-> <<>>, m |-> IF neg THEN -1 ELSE 1, e |-> 0]
Undefined == [t |-> "undef", s |-> <<>>, m |-> 0, e |-> 0]

RECURSIVE Norm(_, _)
Norm(m, e) ==
    IF m = 0 THEN [t |-> "num", s |-> <<>>, m |-> 0, e |-> 0]
    ELSE IF m % 10 = 0 THEN Norm(m \div 10, e + 1)
    ELSE [t |-> "num", s |-> <<>>, m |-> m, e |-> e]

Num(m, e) == Norm(m, e)

DigitChars == <<"0", "1", "2", "3", "4", "5", "6", "7", "8", "9">>
IsDigit(c) == \E i \in 1..10 : DigitChars[i] = c
DigitVal(c) == (CHOOSE i \in 1..10 : DigitChars[i] = c) - 1
IsSpace(c) == c \in {" ", "\t", "\n", "\r"}

UpperChars == <<"A", "B", "C", "D", "E", "F", "G", "H", "I", "J", "K", "L", "M",
                "N", "O", "P", "Q", "R", "S", "T", "U", "V", "W", "X", "Y", "Z">>
LowerChars == <<"a", "b", "c", "d", "e", "f", "g", "h", "i", "j", "k", "l", "m",
                "n", "o", "p", "q", "r", "s", "t", "u", "v", "w", "x", "y", "z">>

\* String.prototype.toLowerCase
LowerChar(c) ==
    IF \E i \in 1..26 : UpperChars[i] = c
    THEN LowerChars[CHOOSE i \in 1..26 : UpperChars[i] = c]
    ELSE c
toLowerCase(s) == [i \in 1..Len(s) |-> LowerChar(s[i])]

StartsAt(s, i, p) ==
    /\ i + Len(p) - 1 <= Len(s)
    /\ \A j \in 1..Len(p) : s[i + j - 1] = p[j]

\* String.prototype.includes
includes(s, p) == \E i \in 1..(Len(s) + 1) : StartsAt(s, i, p)

\* String.prototype.endsWith
endsWith(s, p) == Len(p) <= Len(s) /\ StartsAt(s, Len(s) - Len(p) + 1, p)

RECURSIVE SkipWs(_, _)
SkipWs(s, i) == IF i <= Len(s) /\ IsSpace(s[i]) THEN SkipWs(s, i + 1) ELSE i

RECURSIVE DigitsEnd(_, _)
DigitsEnd(s, i) == IF i <= Len(s) /\ IsDigit(s[i]) THEN DigitsEnd(s, i + 1) ELSE i

\* value of the decimal digits s[i..j-1] (0 when empty)
RECURSIVE DecVal(_, _, _)
DecVal(s, i, j) ==
    IF j <= i THEN 0 ELSE DecVal(s, i, j - 1) * 10 + DigitVal(s[j - 1])

RECURSIVE Pow10(_)
Pow10(n) == IF n <= 0 THEN 1 ELSE 10 * Pow10(n - 1)

kInfinity == <<"I", "n", "f", "i", "n", "i", "t", "y">>

\* The longest prefix of s that is a StrDecimalLiteral, after leading white
\* space: the value and the index after the prefix.
ScanFloat(s) ==
    LET i0 == SkipWs(s, 1)
        neg == i0 <= Len(s) /\ s[i0] = "-"
        i1 == IF i0 <= Len(s) /\ s[i0] \in {"+", "-"} THEN i0 + 1 ELSE i0
        sgn == IF neg THEN -1 ELSE 1
    IN  IF StartsAt(s, i1, kInfinity)
        THEN [val |-> Inf(neg), end |-> i1 + 8]
        ELSE
          LET i2 == DigitsEnd(s, i1)
              hasDot == i2 <= Len(s) /\ s[i2] = "."
              i3 == IF hasDot THEN DigitsEnd(s, i2 + 1) ELSE i2
              nInt == i2 - i1
              nFrac == IF hasDot THEN i3 - (i2 + 1) ELSE 0
              hasE == i3 <= Len(s) /\ s[i3] \in {"e", "E"}
              j0 == i3 + 1
              eneg == hasE /\ j0 <= Len(s) /\ s[j0] = "-"
              j1 == IF hasE /\ j0 <= Len(s) /\ s[j0] \in {"+", "-"}
                    THEN j0 + 1 ELSE j0
              j2 == IF hasE THEN DigitsEnd(s, j1) ELSE j1
              expOk == hasE /\ j2 > j1
              ex == IF expOk
                    THEN (IF eneg THEN -1 ELSE 1) * DecVal(s, j1, j2) ELSE 0
              mant == DecVal(s, i1, i2) * Pow10(nFrac)
                      + (IF hasDot THEN DecVal(s, i2 + 1, i3) ELSE 0)
          IN  IF nInt + nFrac = 0
              THEN [val |-> NaN, end |-> i0]
              ELSE [val |-> Num(sgn * mant, ex - nFrac),
                    end |-> IF expOk THEN j2 ELSE i3]

\* parseFloat(string)
parseFloat(s) == ScanFloat(s).val

\* parseInt(string) with no radix, decimal digits only
parseInt(s) ==
    LET i0 == SkipWs(s, 1)
        neg == i0 <= Len(s) /\ s[i0] = "-"
        i1 == IF i0 <= Len(s) /\ s[i0] \in {"+", "-"} THEN i0 + 1 ELSE i0
        i2 == DigitsEnd(s, i1)
    IN  IF i2 = i1 THEN NaN
        ELSE Num((IF neg THEN -1 ELSE 1) * DecVal(s, i1, i2), 0)

\* Number(string): white space only is 0, otherwise the whole trimmed text
\* must be a decimal literal
ToNumber(s) ==
    LET r == ScanFloat(s)
    IN  IF SkipWs(s, 1) > Len(s) THEN Num(0, 0)
        ELSE IF r.val.t # "nan" /\ SkipWs(s, r.end) > Len(s) THEN r.val
        ELSE NaN

\* the global isNaN(v): NaN after conversion to a number
isNaN(v) ==
    CASE v.t = "undef" -> TRUE
      [] v.t = "nan" -> TRUE
      [] v.t = "str" -> ToNumber(v.s).t = "nan"
      [] OTHER -> FALSE

\* JavaScript truthiness, as used by `!row.date`, `row.sales`, ...
Truthy(v) ==
    CASE v.t = "str" -> v.s # <<>>
      [] v.t = "num" -> v.m # 0
      [] v.t = "inf" -> TRUE
      [] OTHER -> FALSE

\* Number.isFinite
IsFiniteNumber(v) == v.t = "num"

\* ------------------------------------------------------------------------
\* Rows: a JavaScript object as the sequence of its <<key, value>> pairs in
\* insertion order (the order Object.keys returns).
\* ------------------------------------------------------------------------
kDate == <<"d", "a", "t", "e">>
kTime == <<"t", "i", "m", "e">>
kSales == <<"s", "a", "l", "e", "s">>
kRevenue == <<"r", "e", "v", "e", "n", "u", "e">>
kRegion == <<"r", "e", "g", "i", "o", "n">>
kHoliday == <<"h", "o", "l", "i", "d", "a", "y">>
kMarketingSpend == <<"m", "a", "r", "k", "e", "t", "i", "n", "g", "_",
                     "s", "p", "e", "n", "d">>
kOrderDate == <<"O", "r", "d", "e", "r", "_", "D", "a", "t", "e">>
kTimestamp == <<"t", "i", "m", "e", "s", "t", "a", "m", "p">>

HasKey(row, k) == \E i \in 1..Len(row) : row[i][1] = k

\* row[k]
Get(row, k) ==
    IF HasKey(row, k)
    THEN row[CHOOSE i \in 1..Len(row) : row[i][1] = k][2]
    ELSE Undefined

\* row[k] = v
Put(row, k, v) ==
    IF HasKey(row, k)
    THEN [i \in 1..Len(row) |-> IF row[i][1] = k THEN <<k, v>> ELSE row[i]]
    ELSE Append(row, <<k, v>>)

\* parseFloat applied to a row value (String(v) of a number parses to itself)
parseFloatV(v) ==
    CASE v.t = "str" -> parseFloat(v.s)
      [] v.t = "num" -> v
      [] v.t = "inf" -> v
      [] OTHER -> NaN

parseIntV(v) ==
    CASE v.t = "str" -> parseInt(v.s)
      [] OTHER -> NaN

\* k.toLowerCase().includes('date') || k.toLowerCase().includes('time')
IsDateKey(k) ==
    includes(toLowerCase(k), kDate) \/ includes(toLowerCase(k), kTime)

\* "Dynamic Date Mapping": alias the first date-like column into `date`
MapDate(row) ==
    IF ~Truthy(Get(row, kDate))
    THEN IF \E i \in 1..Len(row) : IsDateKey(row[i][1])
         THEN LET i == CHOOSE i \in 1..Len(row) :
                         /\ IsDateKey(row[i][1])
                         /\ \A j \in 1..(i - 1) : ~IsDateKey(row[j][1])
              IN  Put(row, kDate, row[i][2])
         ELSE row
    ELSE row

\* the two branches of the target mapping in the other order
MapTargetSalesFirst(row, targetCol) ==
    IF Truthy(Get(row, kSales))
    THEN Put(row, kSales, parseFloatV(Get(row, kSales)))
    ELSE IF Get(row, targetCol) # Undefined
    THEN Put(row, kSales, parseFloatV(Get(row, targetCol)))
    ELSE row

\* "Dynamic Target Mapping"
MapTarget(row, targetCol) ==
    IF Get(row, targetCol) # Undefined
    THEN Put(row, kSales, parseFloatV(Get(row, targetCol)))
    ELSE IF Truthy(Get(row, kSales))
    THEN Put(row, kSales, parseFloatV(Get(row, kSales)))
    ELSE row

\* the two legacy optional columns
MapLegacy(row) ==
    LET r1 == IF Truthy(Get(row, kMarketingSpend))
              THEN Put(row, kMarketingSpend,
                       parseFloatV(Get(row, kMarketingSpend)))
              ELSE row
    IN  IF Truthy(Get(r1, kHoliday))
        THEN Put(r1, kHoliday, parseIntV(Get(r1, kHoliday)))
        ELSE r1

\* the row as it stands at the end of the 'data' callback
NormalizeRow(row, targetCol) == MapLegacy(MapTarget(MapDate(row), targetCol))

\* row.date && !isNaN(row.sales)
KeepRow(row) == Truthy(Get(row, kDate)) /\ ~isNaN(Get(row, kSales))

\* the 'data' callback: the cache after one parsed record
OnData(cache, raw, targetCol) ==
    LET row == NormalizeRow(raw, targetCol)
    IN  IF KeepRow(row) THEN Append(cache, row) ELSE cache

\* the cache a complete pass over `records` appends to `cache`
RECURSIVE LoadAll(_, _, _)
LoadAll(cache, records, targetCol) ==
    IF records = <<>> THEN cache
    ELSE LoadAll(OnData(cache, Head(records), targetCol), Tail(records),
                 targetCol)

\* ------------------------------------------------------------------------
\* JSON.  A parsed value is a number, a string or an object (its members as
\* <<key, value>> pairs in insertion order, a repeated key keeping its place
\* and taking the last value).  The texts considered hold no arrays, no
\* literals (true, false, null) and no \b, \f or \u escapes.
\* ------------------------------------------------------------------------
JNum(v) == [j |-> "num", v |-> v, kv |-> <<>>]
JStr(s) == [j |-> "str", v |-> Str(s), kv |-> <<>>]
JObj(kv) == [j |-> "obj", v |-> Undefined, kv |-> kv]

\* the result of a parsing step: the value and the index after it
JFail == [ok |-> FALSE, val |-> JObj(<<>>), end |-> 0]
JOk(val, end) == [ok |-> TRUE, val |-> val, end |-> end]

\* number = -? int frac? exp?, with no leading zero
JsonNumber(s, i) ==
    LET neg == s[i] = "-"
        i1 == IF neg THEN i + 1 ELSE i
        i2 == DigitsEnd(s, i1)
        hasDot == i2 <= Len(s) /\ s[i2] = "."
        i3 == IF hasDot THEN DigitsEnd(s, i2 + 1) ELSE i2
        nFrac == IF hasDot THEN i3 - (i2 + 1) ELSE 0
        hasE == i3 <= Len(s) /\ s[i3] \in {"e", "E"}
        j0 == i3 + 1
        eneg == hasE /\ j0 <= Len(s) /\ s[j0] = "-"
        j1 == IF hasE /\ j0 <= Len(s) /\ s[j0] \in {"+", "-"}
              THEN j0 + 1 ELSE j0
        j2 == IF hasE THEN DigitsEnd(s, j1) ELSE i3
        ex == IF hasE THEN (IF eneg THEN -1 ELSE 1) * DecVal(s, j1, j2) ELSE 0
        mant == DecVal(s, i1, i2) * Pow10(nFrac)
                + (IF hasDot THEN DecVal(s, i2 + 1, i3) ELSE 0)
    IN  IF \/ i2 = i1
           \/ i2 - i1 > 1 /\ s[i1] = "0"
           \/ hasDot /\ nFrac = 0
           \/ hasE /\ j2 = j1
        THEN JFail
        ELSE JOk(JNum(Num((IF neg THEN -1 ELSE 1) * mant, ex - nFrac)), j2)

\* the characters of a string up to its closing quote
RECURSIVE JsonChars(_, _, _)
JsonChars(s, i, acc) ==
    IF i > Len(s) THEN JFail
    ELSE IF s[i] = "\"" THEN JOk(JStr(acc), i + 1)
    ELSE IF s[i] = "\\"
    THEN IF i + 1 > Len(s) THEN JFail
         ELSE IF s[i + 1] \in {"\"", "\\", "/"}
         THEN JsonChars(s, i + 2, Append(acc, s[i + 1]))
         ELSE IF s[i + 1] = "n" THEN JsonChars(s, i + 2, Append(acc, "\n"))
         ELSE IF s[i + 1] = "t" THEN JsonChars(s, i + 2, Append(acc, "\t"))
         ELSE IF s[i + 1] = "r" THEN JsonChars(s, i + 2, Append(acc, "\r"))
         ELSE JFail
    ELSE IF s[i] \in {"\n", "\t", "\r"} THEN JFail
    ELSE JsonChars(s, i + 1, Append(acc, s[i]))

JsonString(s, i) ==
    IF i <= Len(s) /\ s[i] = "\"" THEN JsonChars(s, i + 1, <<>>) ELSE JFail

RECURSIVE JsonValue(_, _)
RECURSIVE JsonMembers(_, _, _)
\* the value that starts at or after s[i0]
JsonValue(s, i0) ==
    LET i == SkipWs(s, i0)
    IN  IF i > Len(s) THEN JFail
        ELSE IF s[i] = "{"
        THEN LET j == SkipWs(s, i + 1)
             IN  IF j <= Len(s) /\ s[j] = "}"
                 THEN JOk(JObj(<<>>), j + 1)
                 ELSE JsonMembers(s, i + 1, <<>>)
        ELSE IF s[i] = "\"" THEN JsonString(s, i)
        ELSE IF s[i] = "-" \/ IsDigit(s[i]) THEN JsonNumber(s, i)
        ELSE JFail

\* the members of an object from s[i0] to its closing brace
JsonMembers(s, i0, acc) ==
    LET k == JsonString(s, SkipWs(s, i0))
        c == SkipWs(s, k.end)
    IN  IF ~k.ok \/ c > Len(s) \/ s[c] # ":" THEN JFail
        ELSE LET v == JsonValue(s, c + 1)
                 d == SkipWs(s, v.end)
             IN  IF ~v.ok \/ d > Len(s) THEN JFail
                 ELSE IF s[d] = ","
                 THEN JsonMembers(s, d + 1, Put(acc, k.val.v.s, v.val))
                 ELSE IF s[d] = "}"
                 THEN JOk(JObj(Put(acc, k.val.v.s, v.val)), d + 1)
                 ELSE JFail

\* JSON.parse (and Python's json.loads): one value and nothing after it
JSONparse(s) ==
    LET r == JsonValue(s, 1)
    IN  IF r.ok /\ SkipWs(s, r.end) > Len(s) THEN r ELSE JFail

\* the decimal digits of a natural number
RECURSIVE IntText(_)
IntText(n) ==
    IF n < 10 THEN <<DigitChars[n + 1]>>
    ELSE Append(IntText(n \div 10), DigitChars[(n % 10) + 1])

\* the k low decimal digits of n, zero-padded
RECURSIVE FracText(_, _)
FracText(n, k) ==
    IF k = 0 THEN <<>>
    ELSE Append(FracText(n \div 10, k - 1), DigitChars[(n % 10) + 1])

\* the shortest decimal text of the number m * 10^e, and the same with the
\* ".0" Python's repr gives a float without a fraction
NumText(v, asFloat) ==
    LET a == IF v.m < 0 THEN -v.m ELSE v.m
        sign == IF v.m < 0 THEN <<"-">> ELSE <<>>
    IN  IF v.e >= 0
        THEN sign \o IntText(a * Pow10(v.e))
                  \o (IF asFloat THEN <<".", "0">> ELSE <<>>)
        ELSE sign \o IntText(a \div Pow10(-v.e)) \o <<".">>
                  \o FracText(a % Pow10(-v.e), -v.e)

RECURSIVE Escaped(_)
Escaped(s) ==
    IF s = <<>> THEN <<>>
    ELSE (IF Head(s) \in {"\"", "\\"} THEN <<"\\", Head(s)>>
          ELSE IF Head(s) = "\n" THEN <<"\\", "n">>
          ELSE IF Head(s) = "\t" THEN <<"\\", "t">>
          ELSE IF Head(s) = "\r" THEN <<"\\", "r">>
          ELSE <<Head(s)>>) \o Escaped(Tail(s))

Quote(s) == <<"\"">> \o Escaped(s) \o <<"\"">>

RECURSIVE JsonText(_)
RECURSIVE MembersText(_)
\* JSON.stringify
JsonText(v) ==
    CASE v.j = "num" -> NumText(v.v, FALSE)
      [] v.j = "str" -> Quote(v.v.s)
      [] OTHER -> <<"{">> \o MembersText(v.kv) \o <<"}">>

MembersText(kv) ==
    IF kv = <<>> THEN <<>>
    ELSE Quote(kv[1][1]) \o <<":">> \o JsonText(kv[1][2])
         \o (IF Len(kv) > 1 THEN <<",">> \o MembersText(Tail(kv)) ELSE <<>>)

\* String.prototype.indexOf / lastIndexOf of one character (0-based, or -1)
indexOf(s, c) ==
    IF \E i \in 1..Len(s) : s[i] = c
    THEN (CHOOSE i \in 1..Len(s) : s[i] = c /\ \A j \in 1..(i - 1) : s[j] # c) - 1
    ELSE -1

lastIndexOf(s, c) ==
    IF \E i \in 1..Len(s) : s[i] = c
    THEN (CHOOSE i \in 1..Len(s) :
             s[i] = c /\ \A j \in (i + 1)..Len(s) : s[j] # c) - 1
    ELSE -1

\* String.prototype.substring: both indices are clamped to 0..length and
\* swapped when the first is the greater
substring(s, indexStart, indexEnd) ==
    LET clamp(x) == IF x < 0 THEN 0 ELSE IF x > Len(s) THEN Len(s) ELSE x
        a == clamp(indexStart)
        b == clamp(indexEnd)
    IN  IF a <= b THEN SubSeq(s, a + 1, b) ELSE SubSeq(s, b + 1, a)

\* ------------------------------------------------------------------------
\* Dataset contents: the records csv-parser emits for each file content an
\* upload may carry (all cells are strings; a short line lacks its last
\* columns).
\* ------------------------------------------------------------------------
Cell(t) == Str(t)

\* date,sales,marketing_spend,holiday
Data1 ==
    << << <<kDate, Cell(<<"d", "1">>)>>, <<kSales, Cell(<<"7">>)>>,
          <<kMarketingSpend, Cell(<<>>)>>, <<kHoliday, Cell(<<"1">>)>> >>,
       << <<kDate, Cell(<<"d", "2">>)>>, <<kSales, Cell(<<"1", "2", ".", "5">>)>>,
          <<kMarketingSpend, Cell(<<" ", "5">>)>>, <<kHoliday, Cell(<<"0">>)>> >> >>

\* Order_Date,sales,revenue ; the second line is short (no revenue cell)
Data2 ==
    << << <<kOrderDate, Cell(<<"d", "3">>)>>, <<kSales, Cell(<<"9">>)>>,
          <<kRevenue, Cell(<<"3">>)>> >>,
       << <<kOrderDate, Cell(<<"d", "4">>)>>, <<kSales, Cell(<<>>)>> >> >>

\* sales,region,timestamp ; the first line is short (no timestamp cell)
Data3 ==
    << << <<kSales, Cell(<<"5">>)>>, <<kRegion, Cell(<<"N">>)>> >>,
       << <<kSales, Cell(kInfinity)>>, <<kRegion, Cell(<<"N">>)>>,
          <<kTimestamp, Cell(<<"d", "6">>)>> >>,
       << <<kSales, Cell(<<"a", "b", "c">>)>>, <<kRegion, Cell(<<"S">>)>>,
          <<kTimestamp, Cell(<<"d", "7">>)>> >> >>

Datasets == <<Data1, Data2, Data3>>
DatasetIds == 1..Len(Datasets)

\* ------------------------------------------------------------------------
\* The artifact directory model/ : file names and file records
\* ------------------------------------------------------------------------
fSalesData == <<"s", "a", "l", "e", "s", "_", "d", "a", "t", "a", ".", "c", "s", "v">>
fA == <<"A", ".", "c", "s", "v">>
fB == <<"B", ".", "c", "s", "v">>
fUpper == <<"C", ".", "C", "S", "V">>
fModel == <<"s", "a", "l", "e", "s", "_", "m", "o", "d", "e", "l", ".", "p", "k", "l">>
fFeatures == <<"m", "o", "d", "e", "l", "_", "f", "e", "a", "t", "u", "r", "e", "s",
               ".", "p", "k", "l">>
fEncoders == <<"e", "n", "c", "o", "d", "e", "r", "s", ".", "p", "k", "l">>
fMetadata == <<"m", "o", "d", "e", "l", "_", "m", "e", "t", "a", "d", "a", "t", "a",
               ".", "j", "s", "o", "n">>
fTrainPy == <<"t", "r", "a", "i", "n", ".", "p", "y">>
extCsv == <<".", "c", "s", "v">>
extPkl == <<".", "p", "k", "l">>

\* names an upload may carry (file.originalname)
UploadNames == {fA, fB}
\* contents an upload may carry
UploadDatasets == {2, 3}
PklNames == {fModel, fFeatures, fEncoders}
ArtifactNames == PklNames \cup {fMetadata}
Names == {fSalesData, fTrainPy, fUpper} \cup UploadNames \cup ArtifactNames

\* req.file is undefined
NoName == <<>>

\* A file: ds is the dataset content (of a CSV) or the content the artifact
\* was trained on; gen is the upload generation of the training run that
\* wrote an artifact; target is the metadata document's target_column.
Absent == [ds |-> 0, gen |-> -1, target |-> <<>>]
CsvFile(d) == [ds |-> d, gen |-> 0, target |-> <<>>]
ArtFile(d, g) == [ds |-> d, gen |-> g, target |-> <<>>]
MetaFile(d, g, t) == [ds |-> d, gen |-> g, target |-> t]
CodeFile == [ds |-> 0, gen |-> 0, target |-> <<>>]

\* target columns the Training Job may declare for a dataset: a sales or
\* revenue column of its header (the keys of its first record)
Targets == {kSales, kRevenue}
TargetsOf(d) == {t \in Targets : HasKey(Datasets[d][1], t)}

Reqs == 1..MaxReqs
\* loads are named by what called loadData: 0 is the call at startup, r > 0
\* the call in request r's 'close' handler
Loaders == 0..MaxReqs

VARIABLES
    alive,            \* the server process has not died of an uncaught exception
                      \* (once FALSE the process is gone, and with it the cache
                      \* and the reference its variables last held)
    salesData,        \* let salesData: the Tabular Cache
    currentDataFile,  \* let currentDataFile: the Dataset Reference
    dir,              \* the files of model/, by name
    req,              \* the upload requests: the handler's locals (file, output,
                      \* res), its Training Job, and the history of the events
                      \* delivered to it (io: the console log of its output;
                      \* errored, closes: the 'error' and 'close' events)
    loads,            \* the CSV read streams loadData has created
    salesResp,        \* the last response of GET /api/sales
    metaResp,         \* the last response of GET /api/metadata
    refGen,           \* history: number of uploads accepted so far
    faults,           \* history: number of unlinkSync calls that threw
    pred              \* the predict request: its body, the Inference Routine
                      \* spawned for it (pipe: what the routine has printed and
                      \* the server has not read yet), dataString and res

vars == <<alive, salesData, currentDataFile, dir, req, loads, salesResp,
          metaResp, refGen, faults, pred>>

exists(d, n) == d[n] # Absent

NoResp == [status |-> 0, message |-> "", error |-> "", data |-> <<>>]
IdleReq == [pc |-> "idle", file |-> NoName, ds |-> 0, gen |-> 0,
            job |-> "none", jobds |-> 0, output |-> <<>>, io |-> <<>>,
            errored |-> FALSE, closes |-> <<>>, resp |-> NoResp, sends |-> 0]
IdleLoad == [st |-> "idle", file |-> NoName, target |-> <<>>, rest |-> <<>>]

\* POST /api/predict: the response (status and JSON body) and the request
NoPredResp == [status |-> 0, body |-> JObj(<<>>)]
IdlePred == [pc |-> "idle", stdin |-> <<>>, pipe |-> <<>>,
             dataString |-> <<>>, resp |-> NoPredResp]

\* lines 24-32: the target column loadData resolves
TargetCol(d) ==
    IF exists(d, fMetadata) /\ d[fMetadata].target # <<>>
    THEN d[fMetadata].target
    ELSE kSales

\* lines 20-68, the synchronous part of loadData(): the stream it creates
\* for the current file (opened and read by later events), or nothing when
\* the file does not exist
loadData(ls, by, d, file) ==
    IF exists(d, file)
    THEN [ls EXCEPT ![by] = [st |-> "pending", file |-> file,
                             target |-> TargetCol(d), rest |-> <<>>]]
    ELSE ls

\* the directory of a fresh deployment: the default dataset, with or
\* without the artifacts of a model trained on it
InitDirs ==
    LET base == [n \in Names |->
                    IF n = fSalesData THEN CsvFile(1)
                    ELSE IF n = fTrainPy THEN CodeFile
                    ELSE Absent]
    IN  { base,
          [n \in Names |->
              IF n \in PklNames THEN ArtFile(1, 0)
              ELSE IF n = fMetadata THEN MetaFile(1, 0, kSales)
              ELSE base[n]] }

\* lines 16-18 and the loadData() call of line 70
Init ==
    /\ alive = TRUE
    /\ salesData = <<>>
    /\ currentDataFile = fSalesData
    /\ dir \in InitDirs
    /\ req = [r \in Reqs |-> IdleReq]
    /\ loads = loadData([l \in Loaders |-> IdleLoad], 0, dir, fSalesData)
    /\ salesResp = [got |-> FALSE, body |-> <<>>]
    /\ metaResp = [status |-> 0, body |-> Absent]
    /\ refGen = 0
    /\ faults = 0
    /\ pred = IdlePred

\* ------------------------------------------------------------------------
\* POST /api/upload
\* ------------------------------------------------------------------------
\* lines 73-82, 90: upload.single('file') stores the uploaded file under its
\* original name in model/ while the request body arrives; the route handler
\* runs in a later event, when the body has been read.  A request with no
\* file stores nothing.  ds is the content the upload carries.
UploadSingle(r, name, ds) ==
    /\ alive
    /\ req[r].pc = "idle"
    /\ \A q \in Reqs : q < r => req[q].pc # "idle"
    /\ name = NoName => ds = 0
    /\ name # NoName => ds \in UploadDatasets
    /\ req' = [req EXCEPT ![r].pc = "stored", ![r].file = name, ![r].ds = ds]
    /\ dir' = IF name = NoName THEN dir
              ELSE [dir EXCEPT ![name] = CsvFile(ds)]
    /\ UNCHANGED <<alive, salesData, currentDataFile, loads, salesResp,
                   metaResp, refGen, faults>>
    /\ UNCHANGED pred

\* the check of line 91 left out
NoFileMissed(rq) == FALSE

\* line 91: !req.file
NoFile(rq) == rq.file = NoName

\* res.status(..).json(..) / res.json(..): the first call sends the response,
\* a later one throws ERR_HTTP_HEADERS_SENT
Send(rq, resp) ==
    IF rq.sends = 0
    THEN [rq EXCEPT !.resp = resp, !.sends = 1, !.pc = "done"]
    ELSE [rq EXCEPT !.sends = rq.sends + 1]

\* lines 91-93
UploadNoFile(r) ==
    /\ alive
    /\ req[r].pc = "stored"
    /\ NoFile(req[r])
    /\ req' = [req EXCEPT ![r] =
                 Send(req[r], [status |-> 400, message |-> "",
                               error |-> "No file uploaded", data |-> <<>>])]
    /\ UNCHANGED <<alive, salesData, currentDataFile, dir, loads, salesResp,
                   metaResp, refGen, faults>>
    /\ UNCHANGED pred

\* lines 103-107: the files the cleanup deletes
ShouldDelete(file, originalname) ==
    \/ endsWith(file, extCsv) /\ file # originalname
    \/ endsWith(file, extPkl)
    \/ file = fMetadata

Stale(d, originalname) ==
    {n \in Names : exists(d, n) /\ ShouldDelete(n, originalname)}

\* lines 97-115: the files unlinked by the forEach.  One try/catch encloses
\* the whole loop, so the first unlinkSync that throws (on file `fail`) ends
\* it: only the stale files readdirSync listed before `fail` are gone.
Unlinked(stale, fail, before) ==
    IF fail = NoName THEN stale ELSE before

\* a cleanup that fails answers 500 and ends the request
UploadAcceptAborting(r, fail, before) ==
    /\ alive
    /\ req[r].pc = "stored"
    /\ ~NoFile(req[r])
    /\ LET stale == Stale(dir, req[r].file)
           gone == Unlinked(stale, fail, before)
       IN  /\ \/ fail = NoName /\ before = {}
              \/ fail \in stale /\ before \subseteq (stale \ {fail})
                                /\ faults < MaxFaults
           /\ dir' = [n \in Names |-> IF n \in gone THEN Absent ELSE dir[n]]
    /\ faults' = IF fail = NoName THEN faults ELSE faults + 1
    /\ IF fail = NoName
       THEN /\ currentDataFile' = req[r].file
            /\ refGen' = refGen + 1
            /\ req' = [req EXCEPT ![r].pc = "training", ![r].job = "spawned",
                                  ![r].gen = refGen + 1]
       ELSE /\ req' = [req EXCEPT ![r] =
                         Send(req[r], [status |-> 500, message |-> "",
                                       error |-> "Cleanup failed",
                                       data |-> <<>>])]
            /\ UNCHANGED <<currentDataFile, refGen>>
    /\ UNCHANGED <<alive, salesData, loads, salesResp, metaResp>>
    /\ UNCHANGED pred

\* lines 95-133: cleanup, reference update and spawn of the Training Job
UploadAccept(r, fail, before) ==
    /\ alive
    /\ req[r].pc = "stored"
    /\ ~NoFile(req[r])
    /\ LET stale == Stale(dir, req[r].file)
           gone == Unlinked(stale, fail, before)
       IN  /\ \/ fail = NoName /\ before = {}
              \/ fail \in stale /\ before \subseteq (stale \ {fail})
                                /\ faults < MaxFaults
           /\ dir' = [n \in Names |-> IF n \in gone THEN Absent ELSE dir[n]]
    /\ faults' = IF fail = NoName THEN faults ELSE faults + 1
    /\ currentDataFile' = req[r].file
    /\ refGen' = refGen + 1
    /\ req' = [req EXCEPT ![r].pc = "training", ![r].job = "spawned",
                          ![r].gen = refGen + 1]
    /\ UNCHANGED <<alive, salesData, loads, salesResp, metaResp>>
    /\ UNCHANGED pred

\* text the Training Job prints, and the message of a launch error
ChunkTexts == {<<"o", "k">>, <<"!">>}
kSpawnError == <<"E", "N", "O", "E", "N", "T">>

RECURSIVE ChunksSeen(_)
ChunksSeen(S) ==
    IF S = {} THEN 0
    ELSE LET r == CHOOSE x \in S : TRUE
         IN  Len(req[r].io) + ChunksSeen(S \ {r})

JobAlive(rq) == rq.job \in {"spawned", "running", "written"}

\* lines 142-145: process.stdout.on('data')
OnStdout(r, text) ==
    /\ alive
    /\ JobAlive(req[r])
    /\ ChunksSeen(Reqs) < MaxChunks
    /\ req' = [req EXCEPT ![r].output = req[r].output \o text,
                          ![r].io = Append(req[r].io, [fd |-> "stdout", text |-> text])]
    /\ UNCHANGED <<alive, salesData, currentDataFile, dir, loads, salesResp,
                   metaResp, refGen, faults>>
    /\ UNCHANGED pred

\* standard error appended to the training log as well
OnStderrIntoOutput(r, text) ==
    /\ alive
    /\ JobAlive(req[r])
    /\ ChunksSeen(Reqs) < MaxChunks
    /\ req' = [req EXCEPT ![r].output = req[r].output \o text,
                          ![r].io = Append(req[r].io, [fd |-> "stderr", text |-> text])]
    /\ UNCHANGED <<alive, salesData, currentDataFile, dir, loads, salesResp,
                   metaResp, refGen, faults>>
    /\ UNCHANGED pred

\* lines 147-149: process.stderr.on('data'), logged only
OnStderr(r, text) ==
    /\ alive
    /\ JobAlive(req[r])
    /\ ChunksSeen(Reqs) < MaxChunks
    /\ req' = [req EXCEPT ![r].io = Append(req[r].io, [fd |-> "stderr", text |-> text])]
    /\ UNCHANGED <<alive, salesData, currentDataFile, dir, loads, salesResp,
                   metaResp, refGen, faults>>
    /\ UNCHANGED pred

\* lines 137-140: process.on('error'), the process could not be started
OnError(r) ==
    /\ alive
    /\ req[r].job = "spawned"
    /\ req' = [req EXCEPT ![r] =
                 [Send(req[r], [status |-> 500, message |-> "",
                                error |-> "Failed to start training script",
                                data |-> kSpawnError])
                  EXCEPT !.job = "failed", !.errored = TRUE]]
    /\ UNCHANGED <<alive, salesData, currentDataFile, dir, loads, salesResp,
                   metaResp, refGen, faults>>
    /\ UNCHANGED pred

\* The Training Job (train.py, run in model/): it reads the dataset named by
\* its argument, then writes the Model Artifact Set and the Metadata
\* Document, then exits 0; it exits non-zero without having written them.
JobRead(r) ==
    /\ req[r].job = "spawned"
    /\ exists(dir, req[r].file)
    /\ req' = [req EXCEPT ![r].job = "running", ![r].jobds = dir[req[r].file].ds]
    /\ UNCHANGED <<alive, salesData, currentDataFile, dir, loads, salesResp,
                   metaResp, refGen, faults>>
    /\ UNCHANGED pred

JobWrite(r, target) ==
    /\ req[r].job = "running"
    /\ target \in TargetsOf(req[r].jobds)
    /\ dir' = [n \in Names |->
                 IF n \in PklNames THEN ArtFile(req[r].jobds, req[r].gen)
                 ELSE IF n = fMetadata
                      THEN MetaFile(req[r].jobds, req[r].gen, target)
                 ELSE dir[n]]
    /\ req' = [req EXCEPT ![r].job = "written"]
    /\ UNCHANGED <<alive, salesData, currentDataFile, loads, salesResp,
                   metaResp, refGen, faults>>
    /\ UNCHANGED pred

\* exit statuses: 0, a failure status, and the negative errno of the 'close'
\* that follows a launch error
ExitCodes == {0, 1, -2}

\* which 'close' event a Training Job can deliver
Closes(job, code) ==
    \/ job = "written" /\ code = 0
    \/ job \in {"spawned", "running"} /\ code = 1
    \/ job = "failed" /\ code = -2

\* line 152: code === 0
TrainingSucceeded(code) == code = 0

\* lines 151-162: process.on('close').  A response sent after the 'error'
\* handler already answered throws out of the event handler, which ends the
\* server process.
OnClose(r, code) ==
    /\ alive
    /\ Closes(req[r].job, code)
    /\ IF TrainingSucceeded(code)
       THEN /\ salesData' = <<>>
            /\ loads' = loadData(loads, r, dir, currentDataFile)
            /\ req' = [req EXCEPT ![r] =
                 [Send(req[r],
                       [status |-> 200,
                        message |-> "Data updated and model retrained successfully",
                        error |-> "", data |-> req[r].output])
                  EXCEPT !.job = "closed", !.closes = <<code>>]]
            /\ alive' = (req[r].sends = 0)
       ELSE /\ req' = [req EXCEPT ![r] =
                 [Send(req[r],
                       [status |-> 500, message |-> "",
                        error |-> "Model training failed",
                        data |-> req[r].output])
                  EXCEPT !.job = "closed", !.closes = <<code>>]]
            /\ alive' = (req[r].sends = 0)
            /\ UNCHANGED <<salesData, loads>>
    /\ UNCHANGED <<currentDataFile, dir, salesResp, metaResp, refGen, faults>>
    /\ UNCHANGED pred

\* ------------------------------------------------------------------------
\* The read stream created by loadData (lines 35-64).  The file is opened
\* and read by later events of the event loop; a record of the model stands
\* for one chunk of the file, between which other callbacks run.
\* ------------------------------------------------------------------------
\* fs.createReadStream opens the file: its content is what the file holds now
StreamOpen(l) ==
    /\ alive
    /\ loads[l].st = "pending"
    /\ exists(dir, loads[l].file)
    /\ loads' = [loads EXCEPT ![l].st = "open",
                              ![l].rest = Datasets[dir[loads[l].file].ds]]
    /\ UNCHANGED <<alive, salesData, currentDataFile, dir, req, salesResp,
                   metaResp, refGen, faults>>
    /\ UNCHANGED pred

\* the file was deleted between existsSync and the open: the stream emits
\* 'error', which has no listener, and the server process dies
StreamOpenFail(l) ==
    /\ alive
    /\ loads[l].st = "pending"
    /\ ~exists(dir, loads[l].file)
    /\ loads' = [loads EXCEPT ![l].st = "failed"]
    /\ alive' = FALSE
    /\ UNCHANGED <<salesData, currentDataFile, dir, req, salesResp,
                   metaResp, refGen, faults>>
    /\ UNCHANGED pred

\* lines 37-61: .on('data')
StreamData(l) ==
    /\ alive
    /\ loads[l].st = "open"
    /\ loads[l].rest # <<>>
    /\ salesData' = OnData(salesData, Head(loads[l].rest), loads[l].target)
    /\ loads' = [loads EXCEPT ![l].rest = Tail(loads[l].rest)]
    /\ UNCHANGED <<alive, currentDataFile, dir, req, salesResp, metaResp,
                   refGen, faults>>
    /\ UNCHANGED pred

\* lines 62-64: .on('end')
StreamEnd(l) ==
    /\ alive
    /\ loads[l].st = "open"
    /\ loads[l].rest = <<>>
    /\ loads' = [loads EXCEPT ![l].st = "ended"]
    /\ UNCHANGED <<alive, salesData, currentDataFile, dir, req, salesResp,
                   metaResp, refGen, faults>>
    /\ UNCHANGED pred

\* ------------------------------------------------------------------------
\* The read endpoints
\* ------------------------------------------------------------------------
\* lines 86-88: GET /api/sales
GetSales ==
    /\ alive
    /\ salesResp' = [got |-> TRUE, body |-> salesData]
    /\ UNCHANGED <<alive, salesData, currentDataFile, dir, req, loads,
                   metaResp, refGen, faults>>
    /\ UNCHANGED pred

\* line 168: the status GET /api/metadata answers with
MetadataStatus(d) == IF exists(d, fMetadata) THEN 200 ELSE 404

\* lines 166-173: GET /api/metadata
GetMetadata ==
    /\ alive
    /\ metaResp' = [status |-> MetadataStatus(dir),
                    body |-> IF exists(dir, fMetadata) THEN dir[fMetadata]
                             ELSE Absent]
    /\ UNCHANGED <<alive, salesData, currentDataFile, dir, req, loads,
                   salesResp, refGen, faults>>
    /\ UNCHANGED pred

\* ------------------------------------------------------------------------
\* POST /api/predict and the Inference Routine (the inline program of lines
\* 182-234)
\* ------------------------------------------------------------------------
kError == <<"e", "r", "r", "o", "r">>
kDetails == <<"d", "e", "t", "a", "i", "l", "s">>
kPrediction == <<"p", "r", "e", "d", "i", "c", "t", "i", "o", "n">>
kDayOfWeek == <<"d", "a", "y", "_", "o", "f", "_", "w", "e", "e", "k">>
kMonth == <<"m", "o", "n", "t", "h">>
kDayOfYear == <<"d", "a", "y", "_", "o", "f", "_", "y", "e", "a", "r">>
kScriptFailed == <<"P", "r", "e", "d", "i", "c", "t", "i", "o", "n", " ",
                   "s", "c", "r", "i", "p", "t", " ", "f", "a", "i", "l", "e", "d">>
kNoInput == <<"N", "o", " ", "i", "n", "p", "u", "t", " ",
              "r", "e", "c", "e", "i", "v", "e", "d">>
\* str(e) of the exceptions the routine can meet (shortened)
kPyNoFile == <<"n", "o", " ", "f", "i", "l", "e">>
kPyBadJson == <<"b", "a", "d", " ", "j", "s", "o", "n">>
kPyBadDate == <<"b", "a", "d", " ", "d", "a", "t", "e">>
kPyBadFloat == <<"b", "a", "d", " ", "f", "l", "o", "a", "t">>

\* the artifacts a training run on dataset d leaves: the feature ordering
\* and, per categorical column, the sorted known categories
FeaturesOf(d) ==
    CASE d = 1 -> <<kMarketingSpend, kHoliday, kDayOfWeek, kMonth, kDayOfYear>>
      [] d = 3 -> <<kRegion, kDayOfWeek, kMonth, kDayOfYear>>
      [] OTHER -> <<kDayOfWeek, kMonth, kDayOfYear>>

EncodersOf(d) ==
    IF d = 3 THEN << <<kRegion, << <<"N">>, <<"S">> >> >> >> ELSE <<>>

\* dates pd.to_datetime parses, with dt.dayofweek, dt.month, dt.dayofyear
Calendar ==
    { [text |-> <<"2", "0", "2", "5", "-", "0", "3", "-", "0", "1">>,
       dow |-> 5, month |-> 3, doy |-> 60] }

\* json.dumps({"error": msg}) / json.dumps({"prediction": v}), printed
PyPrintError(msg) ==
    <<"{">> \o Quote(kError) \o <<":", " ">> \o Quote(msg) \o <<"}", "\n">>

PyPrintPrediction(v) ==
    <<"{">> \o Quote(kPrediction) \o <<":", " ">> \o NumText(v, TRUE)
            \o <<"}", "\n">>

\* lines 203-208: the date parts, when the input has a `date` field
Decompose(row) ==
    IF ~HasKey(row, kDate) THEN [ok |-> TRUE, row |-> row]
    ELSE LET v == Get(row, kDate)
             parts(dow, month, doy) ==
                 Put(Put(Put(row, kDayOfWeek, JNum(Num(dow, 0))),
                         kMonth, JNum(Num(month, 0))),
                     kDayOfYear, JNum(Num(doy, 0)))
         IN  IF v.j = "num"
             THEN [ok |-> TRUE, row |-> parts(3, 1, 1)]
             ELSE IF v.j = "str" /\ \E c \in Calendar : c.text = v.v.s
             THEN LET c == CHOOSE c \in Calendar : c.text = v.v.s
                  IN  [ok |-> TRUE, row |-> parts(c.dow, c.month, c.doy)]
             ELSE [ok |-> FALSE, row |-> row]

\* str(value) of an input value
PyStr(v) == IF v.j = "str" THEN v.v.s ELSE NumText(v.v, FALSE)

\* an unknown category encoded as the last known one
EncodeValueLast(classes, val) ==
    IF \E i \in 1..Len(classes) : classes[i] = val
    THEN (CHOOSE i \in 1..Len(classes) : classes[i] = val) - 1
    ELSE Len(classes) - 1

\* lines 214-220: le.transform([val]) for a known category, 0 otherwise
EncodeValue(classes, val) ==
    IF \E i \in 1..Len(classes) : classes[i] = val
    THEN (CHOOSE i \in 1..Len(classes) : classes[i] = val) - 1
    ELSE 0

\* lines 211-220: for col, le in encoders.items()
RECURSIVE EncodeAll(_, _)
EncodeAll(row, encoders) ==
    IF encoders = <<>> THEN row
    ELSE LET col == Head(encoders)[1]
             classes == Head(encoders)[2]
         IN  EncodeAll(IF HasKey(row, col)
                       THEN Put(row, col,
                                JNum(Num(EncodeValue(classes,
                                                     PyStr(Get(row, col))), 0)))
                       ELSE row,
                       Tail(encoders))

\* line 224: df.reindex(columns=features, fill_value=0)
Reindex(row, features) ==
    [i \in 1..Len(features) |->
        IF HasKey(row, features[i]) THEN Get(row, features[i])
        ELSE JNum(Num(0, 0))]

\* the number a feature value converts to (NaN when it does not)
ToFloat(v) ==
    IF v.j = "num" THEN v.v
    ELSE IF v.j = "str" /\ SkipWs(v.v.s, 1) <= Len(v.v.s)
              /\ ToNumber(v.v.s).t = "num"
    THEN ToNumber(v.v.s)
    ELSE NaN

\* the trained predictor, a fixed function of the feature vector:
\* 1 + sum of i * X[i]
RECURSIVE Weighted(_, _, _)
Weighted(X, i, emin) ==
    IF i > Len(X) THEN 0
    ELSE i * X[i].m * Pow10(X[i].e - emin) + Weighted(X, i + 1, emin)

ModelPredict(X) ==
    LET exps == {X[i].e : i \in 1..Len(X)} \cup {0}
        emin == CHOOSE e \in exps : \A f \in exps : e <= f
    IN  Num(Pow10(-emin) + Weighted(X, 1, emin), emin)

\* an exception that leaves the routine instead of being caught
RoutineOutputUncaught(d, stdin) ==
    IF \E n \in PklNames : ~exists(d, n) THEN <<>>
    ELSE IF stdin = <<>> THEN PyPrintError(kNoInput)
    ELSE LET input == JSONparse(stdin)
         IN  IF ~input.ok \/ input.val.j # "obj" THEN <<>>
             ELSE LET dated == Decompose(input.val.kv)
                      X == Reindex(EncodeAll(dated.row, EncodersOf(d[fEncoders].ds)),
                                   FeaturesOf(d[fFeatures].ds))
                  IN  IF ~dated.ok THEN <<>>
                      ELSE IF \E i \in 1..Len(X) : ToFloat(X[i]).t # "num"
                      THEN <<>>
                      ELSE PyPrintPrediction(
                               ModelPredict([i \in 1..Len(X) |-> ToFloat(X[i])]))

\* lines 182-234: what the routine prints on standard output, given the
\* artifact directory and the text on its standard input
RoutineOutput(d, stdin) ==
    IF \E n \in PklNames : ~exists(d, n) THEN PyPrintError(kPyNoFile)
    ELSE IF stdin = <<>> THEN PyPrintError(kNoInput)
    ELSE LET input == JSONparse(stdin)
         IN  IF ~input.ok \/ input.val.j # "obj" THEN PyPrintError(kPyBadJson)
             ELSE LET dated == Decompose(input.val.kv)
                      X == Reindex(EncodeAll(dated.row, EncodersOf(d[fEncoders].ds)),
                                   FeaturesOf(d[fFeatures].ds))
                  IN  IF ~dated.ok THEN PyPrintError(kPyBadDate)
                      ELSE IF \E i \in 1..Len(X) : ToFloat(X[i]).t # "num"
                      THEN PyPrintError(kPyBadFloat)
                      ELSE PyPrintPrediction(
                               ModelPredict([i \in 1..Len(X) |-> ToFloat(X[i])]))

\* request bodies: the input row of a prediction
kDay1 == <<"2", "0", "2", "5", "-", "0", "3", "-", "0", "1">>
PredictBodies ==
    { <<>>,
      << <<kRegion, JStr(<<"N">>)>> >>,
      << <<kRegion, JStr(<<"S">>)>> >>,
      << <<kRegion, JStr(<<"W">>)>> >>,
      << <<kRegion, JStr(<<"W">>)>>, <<kDate, JStr(kDay1)>> >>,
      << <<kDate, JStr(<<"a", "b", "c">>)>> >>,
      << <<kMarketingSpend, JStr(<<"x">>)>> >>,
      << <<kMarketingSpend, JNum(Num(2, 0))>>, <<kHoliday, JStr(<<"1">>)>> >> }

\* lines 175-242: the handler spawns the routine and writes
\* JSON.stringify(req.body) to its standard input
Predict(body) ==
    /\ alive
    /\ pred.pc = "idle"
    /\ pred' = [pred EXCEPT !.pc = "spawned", !.stdin = JsonText(JObj(body))]
    /\ UNCHANGED <<alive, salesData, currentDataFile, dir, req, loads,
                   salesResp, metaResp, refGen, faults>>

\* the interpreter cannot be started: the 'error' event of the child process
\* has no listener in this route, and the server process dies
PredictSpawnError ==
    /\ alive
    /\ pred.pc = "spawned"
    /\ pred' = [pred EXCEPT !.pc = "failed"]
    /\ alive' = FALSE
    /\ UNCHANGED <<salesData, currentDataFile, dir, req, loads, salesResp,
                   metaResp, refGen, faults>>

\* the routine runs against the directory as it is now, prints and exits
PyRun ==
    /\ pred.pc = "spawned"
    /\ pred' = [pred EXCEPT !.pc = "exited",
                            !.pipe = RoutineOutput(dir, pred.stdin)]
    /\ UNCHANGED <<alive, salesData, currentDataFile, dir, req, loads,
                   salesResp, metaResp, refGen, faults>>

\* pieces of output: braces, a member, a digit, other text, white space
Tokens ==
    { <<"{">>, <<"}">>, <<"\"", "a", "\"", ":", "1">>, <<"1">>, <<"x">>,
      <<" ">>, <<",">> }

RECURSIVE Concat(_)
Concat(ts) == IF ts = <<>> THEN <<>> ELSE Head(ts) \o Concat(Tail(ts))

OutputTexts ==
    {Concat(ts) : ts \in UNION {[1..n -> Tokens] : n \in 0..MaxTokens}}

\* the spawned interpreter prints any text (warnings and other output of the
\* libraries around the routine's result, or no result at all) and exits
PyPrint ==
    /\ pred.pc = "spawned"
    /\ \E text \in OutputTexts :
          pred' = [pred EXCEPT !.pc = "exited", !.pipe = text]
    /\ UNCHANGED <<alive, salesData, currentDataFile, dir, req, loads,
                   salesResp, metaResp, refGen, faults>>

\* lines 245-247: process.stdout.on('data'), one chunk of k characters
PredictStdout(k) ==
    /\ alive
    /\ pred.pc = "exited"
    /\ k \in 1..Len(pred.pipe)
    /\ pred' = [pred EXCEPT
                  !.dataString = pred.dataString \o SubSeq(pred.pipe, 1, k),
                  !.pipe = SubSeq(pred.pipe, k + 1, Len(pred.pipe))]
    /\ UNCHANGED <<alive, salesData, currentDataFile, dir, req, loads,
                   salesResp, metaResp, refGen, faults>>

\* lines 266-267: the response of the catch block
ScriptFailed(dataString) ==
    [status |-> 500,
     body |-> JObj(<< <<kError, JStr(kScriptFailed)>>,
                      <<kDetails, JStr(dataString)>> >>)]

\* lines 254-267: the response computed from the captured output
Extract(dataString) ==
    LET jsonStart == indexOf(dataString, "{")
        jsonEnd == lastIndexOf(dataString, "}")
    IN  IF jsonStart = -1 \/ jsonEnd = -1 THEN ScriptFailed(dataString)
        ELSE LET result == JSONparse(substring(dataString, jsonStart, jsonEnd + 1))
             IN  IF result.ok THEN [status |-> 200, body |-> result.val]
                 ELSE ScriptFailed(dataString)

\* lines 253-269: process.on('close'), after the output has been read
PredictClose ==
    /\ alive
    /\ pred.pc = "exited"
    /\ pred.pipe = <<>>
    /\ pred' = [pred EXCEPT !.pc = "done", !.resp = Extract(pred.dataString)]
    /\ UNCHANGED <<alive, salesData, currentDataFile, dir, req, loads,
                   salesResp, metaResp, refGen, faults>>

\* what an upload may carry: a named file with its content, or no file
Uploads ==
    {<<NoName, 0>>} \cup {<<name, ds>> : name \in UploadNames, ds \in UploadDatasets}

\* Overlapping upload requests, their Training Jobs and the reloads
Next ==
    \/ \E r \in Reqs : \E u \in Uploads : UploadSingle(r, u[1], u[2])
    \/ \E r \in Reqs : UploadNoFile(r)
    \/ \E r \in Reqs : UploadAccept(r, NoName, {})
    \/ \E r \in Reqs : OnError(r)
    \/ \E r \in Reqs : JobRead(r)
    \/ \E r \in Reqs : \E target \in Targets : JobWrite(r, target)
    \/ \E r \in Reqs : \E code \in ExitCodes : OnClose(r, code)
    \/ \E l \in Loaders : StreamOpen(l)
    \/ \E l \in Loaders : StreamOpenFail(l)
    \/ \E l \in Loaders : StreamData(l)
    \/ \E l \in Loaders : StreamEnd(l)

Spec == Init /\ [][Next]_vars

\* One upload request with the output of its Training Job
FirstReq == {r \in Reqs : \A q \in Reqs : r <= q}

NextOutput ==
    \/ \E r \in FirstReq : \E u \in Uploads : UploadSingle(r, u[1], u[2])
    \/ \E r \in FirstReq : UploadNoFile(r)
    \/ \E r \in FirstReq : UploadAccept(r, NoName, {})
    \/ \E r \in FirstReq : \E text \in ChunkTexts : OnStdout(r, text)
    \/ \E r \in FirstReq : \E text \in ChunkTexts : OnStderr(r, text)
    \/ \E r \in FirstReq : OnError(r)
    \/ \E r \in FirstReq : JobRead(r)
    \/ \E r \in FirstReq : \E target \in Targets : JobWrite(r, target)
    \/ \E r \in FirstReq : \E code \in ExitCodes : OnClose(r, code)
    \/ \E l \in Loaders : StreamOpen(l)
    \/ \E l \in Loaders : StreamData(l)
    \/ \E l \in Loaders : StreamEnd(l)

SpecOutput == Init /\ [][NextOutput]_vars

\* One upload request with concurrent reads of the cache and the metadata
NextReads ==
    \/ \E r \in FirstReq : \E u \in Uploads : UploadSingle(r, u[1], u[2])
    \/ \E r \in FirstReq : UploadNoFile(r)
    \/ \E r \in FirstReq : UploadAccept(r, NoName, {})
    \/ \E r \in FirstReq : OnError(r)
    \/ \E r \in FirstReq : JobRead(r)
    \/ \E r \in FirstReq : \E target \in Targets : JobWrite(r, target)
    \/ \E r \in FirstReq : \E code \in ExitCodes : OnClose(r, code)
    \/ \E l \in Loaders : StreamOpen(l)
    \/ \E l \in Loaders : StreamData(l)
    \/ \E l \in Loaders : StreamEnd(l)
    \/ GetSales
    \/ GetMetadata

SpecReads == Init /\ [][NextReads]_vars

\* One upload request whose cleanup may hit a file that cannot be deleted
NextFaults ==
    \/ \E r \in FirstReq : \E u \in Uploads : UploadSingle(r, u[1], u[2])
    \/ \E r \in FirstReq : UploadNoFile(r)
    \/ \E r \in FirstReq : \E fail \in Stale(dir, req[r].file) \cup {NoName} :
         \E before \in SUBSET (Stale(dir, req[r].file) \ {fail}) :
            UploadAccept(r, fail, before)
    \/ \E r \in FirstReq : OnError(r)
    \/ \E r \in FirstReq : JobRead(r)
    \/ \E r \in FirstReq : \E target \in Targets : JobWrite(r, target)
    \/ \E r \in FirstReq : \E code \in ExitCodes : OnClose(r, code)
    \/ \E l \in Loaders : StreamOpen(l)
    \/ \E l \in Loaders : StreamData(l)
    \/ \E l \in Loaders : StreamEnd(l)

SpecFaults == Init /\ [][NextFaults]_vars

\* One predict request whose interpreter prints arbitrary text
NextExtract ==
    \/ Predict(<<>>)
    \/ PyPrint
    \/ \E k \in 1..Len(pred.pipe) : PredictStdout(k)
    \/ PredictClose

SpecExtract == Init /\ [][NextExtract]_vars

\* One upload request with its Training Job, and one predict request served
\* by the Inference Routine at any point of it
NextPredict ==
    \/ \E r \in FirstReq : \E u \in Uploads : UploadSingle(r, u[1], u[2])
    \/ \E r \in FirstReq : UploadAccept(r, NoName, {})
    \/ \E r \in FirstReq : JobRead(r)
    \/ \E r \in FirstReq : \E target \in Targets : JobWrite(r, target)
    \/ \E r \in FirstReq : \E code \in ExitCodes : OnClose(r, code)
    \/ \E body \in PredictBodies : Predict(body)
    \/ PredictSpawnError
    \/ PyRun
    \/ \E k \in 1..Len(pred.pipe) : PredictStdout(k)
    \/ PredictClose

SpecPredict == Init /\ [][NextPredict]_vars

\* what an upload may carry when its name may also end in upper case
UploadsAnyCase ==
    Uploads \cup {<<fUpper, ds>> : ds \in UploadDatasets}

\* Overlapping upload requests under any of these names, and their Training
\* Jobs
NextNames ==
    \/ \E r \in Reqs : \E u \in UploadsAnyCase : UploadSingle(r, u[1], u[2])
    \/ \E r \in Reqs : UploadNoFile(r)
    \/ \E r \in Reqs : UploadAccept(r, NoName, {})
    \/ \E r \in Reqs : OnError(r)
    \/ \E r \in Reqs : JobRead(r)
    \/ \E r \in Reqs : \E target \in Targets : JobWrite(r, target)
    \/ \E r \in Reqs : \E code \in ExitCodes : OnClose(r, code)

SpecNames == Init /\ [][NextNames]_vars

\* The same, with every handler and every 'close' event eventually run
\* while the server is up
SpecLive ==
    /\ SpecNames
    /\ \A r \in Reqs :
         /\ WF_vars(UploadNoFile(r))
         /\ WF_vars(UploadAccept(r, NoName, {}))
         /\ WF_vars(\E code \in ExitCodes : OnClose(r, code))

\* ------------------------------------------------------------------------
\* Properties
\* ------------------------------------------------------------------------
InProgress(l) == loads[l].st \in {"pending", "open"}

\* C1: once an upload has been answered 200, the reload its 'close' handler
\* started is complete (no read after the response can see a cache that is
\* still being reloaded).
C1_ReloadBeforeSuccessResponse ==
    \A r \in Reqs : req[r].resp.status = 200 => ~InProgress(r)

\* the caches a complete load produces, and the empty cache
CompleteCaches ==
    {<<>>} \cup {LoadAll(<<>>, Datasets[d], t) : d \in DatasetIds, t \in Targets}

\* C2: every response of GET /api/sales is a complete cache (all kept rows
\* of one dataset, or the empty cache), never a part of one.
C2_ReadsSeeCompleteCache ==
    salesResp.got => salesResp.body \in CompleteCaches

\* C3: every artifact and the metadata document in model/ were written by
\* the training run of the upload that set the current Dataset Reference,
\* or at least were trained on the content of the currently referenced file.
C3_ArtifactsMatchReference ==
    \A n \in ArtifactNames :
        exists(dir, n)
        => \/ dir[n].gen = refGen
           \/ /\ exists(dir, currentDataFile)
              /\ dir[n].ds = dir[currentDataFile].ds

IsDatasetName(n) == endsWith(n, extCsv)
IsArtifactName(n) == endsWith(n, extPkl) \/ n = fMetadata

\* C4: when an upload is accepted while another dataset file and prior
\* artifacts exist, the directory after the handler's cleanup holds the
\* uploaded file, no other dataset file, no .pkl and no metadata document.
C4_CleanupLeavesOnlyUpload ==
    [][\A r \in Reqs :
         ( /\ req[r].pc = "stored"
           /\ req'[r].pc = "training"
           /\ \E n \in Names : exists(dir, n) /\ IsDatasetName(n) /\ n # req[r].file
           /\ \E n \in Names : exists(dir, n) /\ IsArtifactName(n) )
         => /\ exists(dir', req[r].file)
            /\ \A n \in Names :
                 (exists(dir', n) /\ n # req[r].file)
                 => ~IsDatasetName(n) /\ ~IsArtifactName(n)]_vars

\* C5: while the training run of the latest accepted upload has not written
\* its artifacts (it is still running, could not be started, or failed),
\* model/ holds no artifact and GET /api/metadata answers 404.
C5_NoStaleModelWhileUntrained ==
    \A r \in Reqs :
        ( /\ req[r].gen > 0
          /\ req[r].gen = refGen
          /\ \/ req[r].job \in {"spawned", "running", "failed"}
             \/ req[r].job = "closed" /\ req[r].closes # <<0>> )
        => /\ MetadataStatus(dir) = 404
           /\ \A n \in ArtifactNames : ~exists(dir, n)

\* C6: no step of an upload request other than the 'close' of a Training
\* Job that exited 0 touches the cache: a launch failure and a non-zero exit
\* leave the server holding the cache as it was, with no reload started.
C6_FailedTrainingKeepsCache ==
    [][\A r \in Reqs :
         (req'[r] # req[r] /\ ~(req[r].job = "written" /\ req'[r].job = "closed"))
         => (alive' = alive /\ salesData' = salesData /\ loads' = loads)]_vars

\* C7: at most one Training Job is running at any time.
C7_SingleTrainingInFlight ==
    Cardinality({r \in Reqs : JobAlive(req[r])}) <= 1

\* the standard-output text of a log, in arrival order
RECURSIVE StdoutOf(_)
StdoutOf(io) ==
    IF io = <<>> THEN <<>>
    ELSE (IF Head(io).fd = "stdout" THEN Head(io).text ELSE <<>>)
         \o StdoutOf(Tail(io))

\* C8: the response of an accepted upload follows from the terminal event
\* of its Training Job: exit 0 gives 200 with the standard output; another
\* exit status gives 500 with exactly the standard output in arrival order;
\* a launch error gives 500 with the launch error's message.
C8_ResponseByTerminalState ==
    \A r \in Reqs :
        /\ (~req[r].errored /\ req[r].closes # <<>> /\ req[r].closes[1] = 0)
           => req[r].resp =
                [status |-> 200,
                 message |-> "Data updated and model retrained successfully",
                 error |-> "", data |-> StdoutOf(req[r].io)]
        /\ (~req[r].errored /\ req[r].closes # <<>> /\ req[r].closes[1] # 0)
           => req[r].resp =
                [status |-> 500, message |-> "",
                 error |-> "Model training failed",
                 data |-> StdoutOf(req[r].io)]
        /\ req[r].errored
           => req[r].resp =
                [status |-> 500, message |-> "",
                 error |-> "Failed to start training script",
                 data |-> kSpawnError]

C8_Witness ==
    \E r \in Reqs :
        /\ req[r].closes = <<1>>
        /\ Len(req[r].io) = 2
        /\ req[r].io[1].fd = "stderr"
        /\ req[r].io[2].fd = "stdout"

\* C9: a request that carries no file stores nothing, is answered 400 by
\* its handler, and changes neither model/, the Dataset Reference, the
\* cache nor the reloads, and spawns no Training Job.
C9_NoFileNoSideEffects ==
    [][\A r \in Reqs :
         (req'[r] # req[r] /\ req'[r].file = NoName)
         => /\ dir' = dir
            /\ currentDataFile' = currentDataFile
            /\ salesData' = salesData
            /\ loads' = loads
            /\ req'[r].job = "none"
            /\ req[r].pc = "stored"
               => /\ req'[r].pc = "done"
                  /\ req'[r].resp.status = 400
                  /\ req'[r].resp.error = "No file uploaded"]_vars

C9_Witness ==
    \E r \in Reqs :
        /\ req[r].file = NoName
        /\ req[r].resp.status = 400
        /\ exists(dir, fMetadata)
        /\ exists(dir, fSalesData)

\* C10: every cached row has a non-empty date and a finite number as sales.
C10_CachedRowsValid ==
    \A i \in 1..Len(salesData) :
        /\ Truthy(Get(salesData[i], kDate))
        /\ IsFiniteNumber(Get(salesData[i], kSales))

\* the target column the metadata document in d declares, if any
Declared(d) ==
    IF exists(d, fMetadata) THEN d[fMetadata].target ELSE <<>>

\* C11: a reload resolves its target column T to the one the metadata
\* document declares, and to 'sales' only when there is no document or no
\* declared target; a record it caches that has column T gets the parsed
\* value of column T as sales (also when it has a literal sales column), and
\* a record without column T gets the parsed literal sales column.
C11_TargetPrecedence ==
    /\ [](refGen = 0 /\ loads[0].st # "idle"
          => loads[0].target =
               IF Declared(dir) # <<>> THEN Declared(dir) ELSE kSales)
    /\ [][\A l \in Loaders :
            /\ (loads[l].st # "pending" /\ loads'[l].st = "pending")
               => loads'[l].target =
                    IF Declared(dir) # <<>> THEN Declared(dir) ELSE kSales
            /\ ( /\ loads[l].st = "open"
                 /\ loads'[l].rest # loads[l].rest
                 /\ Len(salesData') = Len(salesData) + 1 )
               => LET raw == Head(loads[l].rest)
                      T == loads[l].target
                      row == salesData'[Len(salesData')]
                  IN  /\ HasKey(raw, T)
                         => Get(row, kSales) = parseFloatV(Get(raw, T))
                      /\ (~HasKey(raw, T) /\ Truthy(Get(raw, kSales)))
                         => Get(row, kSales) = parseFloatV(Get(raw, kSales))]_vars

\* a cached record of the second dataset (revenue 3, sales 9) under the
\* declared target revenue
C11_Witness ==
    /\ Declared(dir) = kRevenue
    /\ Get(Datasets[2][1], kSales) = Str(<<"9">>)
    /\ \E i \in 1..Len(salesData) :
          /\ Get(salesData[i], kRevenue) = Str(<<"3">>)
          /\ Get(salesData[i], kSales) = parseFloat(<<"3">>)
          /\ Get(salesData[i], kSales) # parseFloat(<<"9">>)

\* C12: the response of a predict request is 200 with the value parsed from
\* the text between the first '{' and the last '}' of the captured output
\* (both included) when there are such braces and that text parses, and it
\* is 500 with the whole captured output as details otherwise.
C12_OutputExtraction ==
    pred.pc = "done"
    => LET first == indexOf(pred.dataString, "{")
           last == lastIndexOf(pred.dataString, "}")
           part == SubSeq(pred.dataString, first + 1, last + 1)
       IN  IF first # -1 /\ last # -1 /\ JSONparse(part).ok
           THEN pred.resp = [status |-> 200, body |-> JSONparse(part).val]
           ELSE pred.resp =
                  [status |-> 500,
                   body |-> JObj(<< <<kError, JStr(kScriptFailed)>>,
                                    <<kDetails, JStr(pred.dataString)>> >>)]

\* the Model Artifact Set is not (wholly) in model/
ArtifactsAbsent(d) == \E n \in PklNames : ~exists(d, n)

PyMessages == {kPyNoFile, kNoInput, kPyBadJson, kPyBadDate, kPyBadFloat}
IsErrorReport(text) == \E msg \in PyMessages : text = PyPrintError(msg)

\* the input row on the routine's standard input has a date no calendar
\* date matches
BadDate(stdin) ==
    LET row == JSONparse(stdin).val.kv
    IN  /\ HasKey(row, kDate)
        /\ Get(row, kDate).j = "str"
        /\ \A c \in Calendar : c.text # Get(row, kDate).v.s

\* C13: the handler spawns the Inference Routine without looking at the
\* artifacts; a routine that runs while the Model Artifact Set is absent, or
\* on an input whose date does not parse, prints an error report; and a
\* request whose routine printed an error report is answered 200 with an
\* error field.
C13_DomainErrorIs200 ==
    /\ []( (pred.pc = "done" /\ IsErrorReport(pred.dataString))
           => /\ pred.resp.status = 200
              /\ pred.resp.body.j = "obj"
              /\ HasKey(pred.resp.body.kv, kError) )
    /\ [][ /\ (pred.pc = "idle" /\ pred'.pc # "idle")
              => (pred'.pc = "spawned" /\ pred'.resp = NoPredResp)
           /\ ( /\ pred.pc = "spawned"
                /\ pred'.pc = "exited"
                /\ (ArtifactsAbsent(dir) \/ BadDate(pred.stdin)) )
              => IsErrorReport(pred'.pipe) ]_vars

\* a predict request made after a cleanup, answered 200 with the routine's
\* report that an artifact is missing
C13_Witness ==
    /\ pred.pc = "done"
    /\ refGen > 0
    /\ ArtifactsAbsent(dir)
    /\ pred.resp.status = 200
    /\ HasKey(pred.resp.body.kv, kError)
    /\ Get(pred.resp.body.kv, kError) = JStr(kPyNoFile)

IsPredictionReport(text) ==
    LET r == JSONparse(text)
    IN  r.ok /\ r.val.j = "obj" /\ HasKey(r.val.kv, kPrediction)

\* C14: when the routine runs with the artifacts present on an input that
\* has a categorical column of the encoder set (its other features being
\* numeric), it prints the prediction for the feature vector in which that
\* column holds the index of the value among the known categories, or 0 for
\* a value not among them; for such a value this is the prediction it prints
\* for the first known category; and a request whose routine printed a
\* prediction is answered 200 with it.
C14_UnknownCategoryFallback ==
    /\ []( (pred.pc = "done" /\ IsPredictionReport(pred.dataString))
           => /\ pred.resp.status = 200
              /\ pred.resp.body = JSONparse(pred.dataString).val )
    /\ [][ (pred.pc = "spawned" /\ pred'.pc = "exited" /\ ~ArtifactsAbsent(dir))
           => LET row == JSONparse(pred.stdin).val.kv
                  encoders == EncodersOf(dir[fEncoders].ds)
                  features == FeaturesOf(dir[fFeatures].ds)
                  X0 == Reindex(Decompose(row).row, features)
              IN  \A n \in 1..Len(encoders) :
                    LET col == encoders[n][1]
                        classes == encoders[n][2]
                        val == PyStr(Get(row, col))
                        known == \E i \in 1..Len(classes) : classes[i] = val
                        code == IF known
                                THEN (CHOOSE i \in 1..Len(classes) :
                                         classes[i] = val) - 1
                                ELSE 0
                        X == [i \in 1..Len(features) |->
                                IF features[i] = col THEN Num(code, 0)
                                ELSE ToFloat(X0[i])]
                    IN  ( /\ HasKey(row, col)
                          /\ Decompose(row).ok
                          /\ \A i \in 1..Len(features) :
                               features[i] # col => ToFloat(X0[i]).t = "num" )
                        => /\ pred'.pipe = PyPrintPrediction(ModelPredict(X))
                           /\ ~known
                              => pred'.pipe =
                                   RoutineOutput(dir,
                                     JsonText(JObj(Put(row, col,
                                                       JStr(classes[1]))))) ]_vars

\* a prediction for the unknown region W under the encoders of the third
\* dataset
C14_Witness ==
    /\ pred.pc = "done"
    /\ pred.stdin = JsonText(JObj(<< <<kRegion, JStr(<<"W">>)>> >>))
    /\ ~ArtifactsAbsent(dir)
    /\ dir[fEncoders].ds = 3
    /\ req[1].job = "closed"
    /\ pred.resp.status = 200
    /\ HasKey(pred.resp.body.kv, kPrediction)
    /\ Get(pred.resp.body.kv, kPrediction) = JNum(Num(1, 0))

\* a dataset file: a CSV file by its extension, in either case
IsDatasetFile(n) == endsWith(toLowerCase(n), extCsv)

\* C15: when uploads have been accepted and no stored upload still awaits
\* its handler, model/ holds at most one dataset file, that file is the one
\* the Dataset Reference names, and the reference is the file of the most
\* recently accepted upload.
C15_SingleActiveDataset ==
    (refGen > 0 /\ \A r \in Reqs : req[r].pc # "stored")
    => LET files == {n \in Names : exists(dir, n) /\ IsDatasetFile(n)}
       IN  /\ Cardinality(files) <= 1
           /\ files \subseteq {currentDataFile}
           /\ \E r \in Reqs : req[r].gen = refGen /\ req[r].file = currentDataFile

\* C16: an upload whose cleanup hits a file that cannot be deleted is still
\* accepted: the same step sets the Dataset Reference to the uploaded file
\* and spawns the request's Training Job, and no other step ever spawns a
\* Training Job for a request.
C16_CleanupFailureNonFatal ==
    [][\A r \in Reqs :
         /\ (req[r].pc = "stored" /\ req'[r].pc # "stored" /\ faults' > faults)
            => /\ currentDataFile' = req[r].file
               /\ req[r].job = "none"
               /\ req'[r].job = "spawned"
               /\ req'[r].pc = "training"
               /\ req'[r].sends = 0
               /\ alive'
         /\ (req'[r].job = "spawned" /\ req[r].job # "spawned")
            => (req[r].pc = "stored" /\ req[r].job = "none")]_vars

\* an accepted upload after a failed deletion, stale artifacts still there
C16_Witness ==
    \E r \in Reqs :
        /\ faults > 0
        /\ req[r].job = "spawned"
        /\ currentDataFile = req[r].file
        /\ exists(dir, fMetadata)

\* C17: no response is sent for an accepted upload while its Training Job
\* has neither exited nor failed to start, and every accepted upload is
\* eventually answered.
C17_AnsweredOnTermination ==
    /\ [](\A r \in Reqs : JobAlive(req[r]) => req[r].sends = 0)
    /\ \A r \in Reqs : (req[r].pc = "training") ~> (req[r].sends > 0)

\* C18: when one deletion fails during the cleanup of an accepted upload, at
\* most that one stale file is left in model/ when the Training Job is
\* spawned.
C18_CleanupPerFile ==
    [][\A r \in Reqs :
         (req[r].pc = "stored" /\ req'[r].pc = "training" /\ faults' > faults)
         => Cardinality({n \in Stale(dir, req[r].file) : exists(dir', n)}) <= 1]_vars

\* C19: at most one response is sent for an upload request, and a request
\* whose Training Job has delivered its 'close' has been sent exactly one.
C19_ExactlyOneResponse ==
    \A r \in Reqs :
        /\ req[r].sends <= 1
        /\ req[r].job = "closed" => req[r].sends = 1

\* C20: when no reload is in progress, the cache is empty or holds exactly
\* the kept rows of one dataset, in file order and each once, as normalized
\* under the target column of a finished reload.
C20_CacheIsOneReload ==
    (alive /\ \A l \in Loaders : ~InProgress(l))
    => \/ salesData = <<>>
       \/ \E l \in Loaders : \E d \in DatasetIds :
            /\ loads[l].st = "ended"
            /\ salesData = LoadAll(<<>>, Datasets[d], loads[l].target)

\* C21: no step of GET /api/sales, GET /api/metadata or POST /api/predict
\* (the handler, the routine, its output and its 'close') changes the cache,
\* the Dataset Reference or the files of model/, nor ends the server process
\* that holds the cache and the reference.
C21_ReadsAndPredictFrame ==
    [][(salesResp' # salesResp \/ metaResp' # metaResp \/ pred' # pred)
       => /\ salesData' = salesData
          /\ currentDataFile' = currentDataFile
          /\ dir' = dir
          /\ alive' = alive]_vars

====
